---- MODULE Spec2Model ----
(***************************************************************************)
(* Sentiment-Analysis-App: the resilient fetch, the content extractor, the *)
(* pipeline coordinator (AnalysisService / main.py analyze_article), the   *)
(* sentiment breakdown and the repository that stores the records.         *)
(*                                                                         *)
(* Strings.  Three representations are used, each keeping what the code    *)
(* looks at:                                                               *)
(*   - labels and markup are sequences of one-character strings, so that   *)
(*     str.upper() / str.lower() and the `in` test are computed;           *)
(*   - URLs are sequences of lexical tokens (scheme, "://", host, port,    *)
(*     path), so that startswith / urlparse / replace are computed;        *)
(*   - prose (headings, paragraphs, bodies) is a run-length sequence of    *)
(*     <<class, count>> with the character classes "w" (a \w character),   *)
(*     "s" (whitespace), "p" (kept punctuation) and "x" (any other         *)
(*     character), so that len, strip, slicing and the two re.sub calls    *)
(*     are computed on texts of realistic length.                          *)
(* Scores are integers in thousandths (ScoreUnit = 1.0); breakdown values  *)
(* are in units of 1/(10*ScoreUnit), which makes *0.6 and *0.4 exact.      *)
(***************************************************************************)
EXTENDS Integers, Sequences, FiniteSets, TLC

(* ----------------------------- bounds ---------------------------------- *)
\* number of steps of the score grid the classifier's score is drawn from
ScoreGrid == 2
\* how many times the add-sample-data endpoint is called in a behaviour
MaxSampleCalls == 1
\* how many records are saved on top of the records the stores start with
MaxSaves == 1
\* how many requests are in flight on the event loop at once
MaxInvocations == 3

(* ------------------------- program constants --------------------------- *)
ScoreUnit == 1000
MinHtmlLen == 500
MinContent == 50
MinTextLen == 10
WindowLen == 1000
SummaryLen == 200
HeadingLen == 200
MinParaLen == 20
MinDivLen == 100
MinDivWords == 10
MinParas == 2
\* a capacity of one entry more
max_memory_items_plus_one == 50 + 1
max_memory_items == 50
BreakdownTol == 100

(* --------------------------- characters -------------------------------- *)
LowerLetters ==
  <<"a","b","c","d","e","f","g","h","i","j","k","l","m",
    "n","o","p","q","r","s","t","u","v","w","x","y","z">>

UpperLetters ==
  <<"A","B","C","D","E","F","G","H","I","J","K","L","M",
    "N","O","P","Q","R","S","T","U","V","W","X","Y","Z">>

\* str.lower() on one character
LowerChar(c) ==
  IF \E k \in 1..26 : UpperLetters[k] = c
  THEN LowerLetters[CHOOSE k \in 1..26 : UpperLetters[k] = c]
  ELSE c

\* str.upper() on one character
UpperChar(c) ==
  IF \E k \in 1..26 : LowerLetters[k] = c
  THEN UpperLetters[CHOOSE k \in 1..26 : LowerLetters[k] = c]
  ELSE c

Lower(s) == [k \in 1..Len(s) |-> LowerChar(s[k])]

Upper(s) == [k \in 1..Len(s) |-> UpperChar(s[k])]

\* Python's `needle in hay`
Contains(hay, needle) ==
  \E k \in 0..(Len(hay) - Len(needle)) :
     SubSeq(hay, k + 1, k + Len(needle)) = needle

(* ------------------------------ prose ---------------------------------- *)
RECURSIVE TLen(_)
\* len(text)
TLen(t) == IF t = <<>> THEN 0 ELSE Head(t)[2] + TLen(Tail(t))

RECURSIVE Norm(_)
\* canonical form: adjacent runs of the same class are one run
Norm(t) ==
  IF Len(t) < 2 THEN t
  ELSE IF t[1][1] = t[2][1]
       THEN Norm(<<(<<t[1][1], t[1][2] + t[2][2]>>)>> \o SubSeq(t, 3, Len(t)))
       ELSE <<t[1]>> \o Norm(Tail(t))

Cat(a, b) == Norm(a \o b)

RECURSIVE LStrip(_)
LStrip(t) == IF t # <<>> /\ Head(t)[1] = "s" THEN LStrip(Tail(t)) ELSE t

RECURSIVE RStrip(_)
RStrip(t) ==
  IF t # <<>> /\ t[Len(t)][1] = "s" THEN RStrip(SubSeq(t, 1, Len(t) - 1)) ELSE t

\* str.strip()
Strip(t) == RStrip(LStrip(t))

RECURSIVE Take(_, _)
\* text[:n]
Take(t, n) ==
  IF t = <<>> \/ n <= 0 THEN <<>>
  ELSE IF Head(t)[2] <= n
       THEN <<Head(t)>> \o Take(Tail(t), n - Head(t)[2])
       ELSE <<(<<Head(t)[1], n>>)>>

\* re.sub(r'\s+', ' ', text): every run of whitespace becomes one space
CollapseWs(t) == [k \in 1..Len(t) |-> IF t[k][1] = "s" THEN <<"s", 1>> ELSE t[k]]

IsSpecial(run) == run[1] = "x"

\* re.sub(r'[^\w\s\.,;:!?\-\'"()]', '', text): the other characters vanish
StripSpecial(t) == Norm(SelectSeq(t, LAMBDA run : ~IsSpecial(run)))

\* len(text.split()): the number of maximal runs of non-whitespace
WordCount(t) ==
  LET u == Strip(t)
  IN  IF u = <<>> THEN 0
      ELSE 1 + Cardinality({k \in 1..Len(u) : u[k][1] = "s"})

W(n) == <<(<<"w", n>>)>>

Space == <<(<<"s", 1>>)>>

Dots == <<(<<"p", 3>>)>>

\* "No Heading"
NoHeading == <<(<<"w", 2>>), (<<"s", 1>>), (<<"w", 7>>)>>

\* ". " between heading and body
DotSpace == <<(<<"p", 1>>), (<<"s", 1>>)>>

RECURSIVE JoinSpace(_)
\* " ".join(parts)
JoinSpace(parts) ==
  IF parts = <<>> THEN <<>>
  ELSE IF Len(parts) = 1 THEN parts[1]
       ELSE Cat(Cat(parts[1], Space), JoinSpace(Tail(parts)))

(* ------------------------------- URLs ---------------------------------- *)
SchemeTokens == {"http", "https", "HTTP", "ftp"}

HostTokens == {"example.com"}

PortTokens == {":80"}

PathTokens == {"/news"}

UrlHttps == <<"https", "://", "example.com", "/news">>

UrlHttp == <<"http", "://", "example.com", "/news">>

UrlUpper == <<"HTTP", "://", "example.com", "/news">>

UrlFtp == <<"ftp", "://", "example.com", "/news">>

UrlNoScheme == <<"example.com", "/news">>

UrlNoHost == <<"https", "://", "/news">>

UrlPortOnly == <<"http", "://", ":80", "/news">>

\* the literal ArticleModel is given by analyze_text
UrlTextInput == <<"text-input">>

Urls == {UrlHttps, UrlHttp, UrlUpper, UrlFtp, UrlNoScheme, UrlNoHost, UrlPortOnly}

\* urlparse lower-cases the scheme
LowerTok(tok) == IF tok = "HTTP" THEN "http" ELSE tok

HasSchemeSep(u) == Len(u) >= 2 /\ u[1] \in SchemeTokens /\ u[2] = "://"

\* urlparse(u).scheme
Scheme(u) == IF HasSchemeSep(u) THEN LowerTok(u[1]) ELSE ""

\* urlparse(u).netloc: what stands between "://" and the path
Netloc(u) ==
  IF HasSchemeSep(u)
  THEN SelectSeq(SubSeq(u, 3, Len(u)), LAMBDA tok : tok \in HostTokens \cup PortTokens)
  ELSE <<>>

\* urlparse(u).hostname: the netloc without its port
Host(u) == SelectSeq(Netloc(u), LAMBDA tok : tok \in HostTokens)

\* v.startswith(('http://', 'https://')), case-sensitive
StartsWithHttp(u) == Len(u) >= 2 /\ u[1] \in {"http", "https"} /\ u[2] = "://"

StartsWithHttps(u) == Len(u) >= 2 /\ u[1] = "https" /\ u[2] = "://"

\* url.replace("https://", "http://", 1)
ReplaceHttps(u) == IF StartsWithHttps(u) THEN <<"http">> \o Tail(u) ELSE u

\* URLInputModel.validate_url: TRUE when the validator accepts
URLInputModel_validate_url(v) ==
  /\ v # <<>>
  /\ StartsWithHttp(v)
  /\ Netloc(v) # <<>>

\* the urlparse gate at the head of main.py analyze_article
main_validate_url(u) == Scheme(u) # "" /\ Netloc(u) # <<>>

\* ArticleModel.validate_url
ArticleModel_validate_url(v) == StartsWithHttp(v)

\* ArticleModel.validate_title
ArticleModel_validate_title(v) == Strip(v) # <<>>

(* ---------------------------- documents -------------------------------- *)
\* A parsed page after the decompose loop: the text of the first h1, of the
\* title, of the first match of each fallback heading selector, the elements
\* matched by each article selector (each element: the texts of its <p>), the
\* <p> outside those elements, and the texts of the <div>.
MkDoc(h1, title, fallback, containers, loose, divs) ==
  [h1 |-> h1, title |-> title, fallback |-> fallback,
   containers |-> containers, loose |-> loose, divs |-> divs]

\* a special character then a space in front of n word characters
Lead(n) == <<(<<"x", 1>>), (<<"s", 1>>), (<<"w", n>>)>>

DocShort == MkDoc(W(5), W(3), <<>>, <<>>, <<W(MinContent - 1)>>, <<>>)

DocExact == MkDoc(<<>>, W(3), <<>>, <<>>, <<W(MinContent)>>, <<>>)

DocLeadShort == MkDoc(W(5), <<>>, <<>>, <<>>, <<Lead(MinContent - 1)>>, <<>>)

DocLeadExact == MkDoc(<<>>, <<>>, <<W(4)>>, <<>>, <<Lead(MinContent)>>, <<>>)

DocArticle ==
  MkDoc(W(5), W(3), <<>>, << << <<W(30), Cat(Space, W(30))>> >> >>,
        <<W(25)>>, <<W(120)>>)

DocEmpty == MkDoc(<<>>, <<>>, <<>>, <<>>, <<>>, <<>>)

Docs == {DocShort, DocExact, DocLeadShort, DocLeadExact, DocArticle, DocEmpty}

\* element.get_text(strip=True) of an element holding one text node
GetText(raw) == Strip(raw)

RECURSIVE FirstNonEmpty(_)
FirstNonEmpty(texts) ==
  IF texts = <<>> THEN <<>>
  ELSE IF GetText(Head(texts)) # <<>> THEN GetText(Head(texts))
       ELSE FirstNonEmpty(Tail(texts))

\* heading selection asking the title before the h1
SelectHeadingTitleFirst(doc) ==
  IF GetText(doc.title) # <<>> THEN GetText(doc.title)
  ELSE IF GetText(doc.h1) # <<>> THEN GetText(doc.h1)
       ELSE IF FirstNonEmpty(doc.fallback) # <<>> THEN FirstNonEmpty(doc.fallback)
            ELSE NoHeading

\* heading selection: h1, else title, else the fallback selectors
SelectHeading(doc) ==
  IF GetText(doc.h1) # <<>> THEN GetText(doc.h1)
  ELSE IF GetText(doc.title) # <<>> THEN GetText(doc.title)
       ELSE IF FirstNonEmpty(doc.fallback) # <<>> THEN FirstNonEmpty(doc.fallback)
            ELSE NoHeading

\* the cut without the marker
TruncateHeadingNoMarker(h) == IF TLen(h) > HeadingLen THEN Take(h, HeadingLen) ELSE h

\* if len(heading) > 200: heading = heading[:200] + "..."
TruncateHeading(h) == IF TLen(h) > HeadingLen THEN Cat(Take(h, HeadingLen), Dots) ELSE h

NonEmptyTexts(paras) ==
  SelectSeq([k \in 1..Len(paras) |-> GetText(paras[k])], LAMBDA t : t # <<>>)

RECURSIVE ScanElements(_)
\* the inner loop taking the first element whatever it holds
ScanElementsFirstOnly(elems) ==
  IF elems = <<>> THEN [found |-> FALSE, parts |-> <<>>]
  ELSE [found |-> TRUE, parts |-> NonEmptyTexts(Head(elems))]

\* the inner loop over the elements one article selector matched
ScanElements(elems) ==
  IF elems = <<>> THEN [found |-> FALSE, parts |-> <<>>]
  ELSE IF Len(Head(elems)) >= MinParas
       THEN [found |-> TRUE, parts |-> NonEmptyTexts(Head(elems))]
       ELSE ScanElements(Tail(elems))

RECURSIVE ScanSelectors(_, _)
\* the outer loop: the service leaves it when body_parts is non-empty,
\* main.py when an element with enough paragraphs was found
ScanSelectors(sels, impl) ==
  IF sels = <<>> THEN <<>>
  ELSE LET r == ScanElements(Head(sels))
       IN  IF (impl = "main" /\ r.found) \/ (impl # "main" /\ r.parts # <<>>)
           THEN r.parts
           ELSE ScanSelectors(Tail(sels), impl)

RECURSIVE Flatten(_)
Flatten(ss) == IF ss = <<>> THEN <<>> ELSE Head(ss) \o Flatten(Tail(ss))

\* soup.find_all("p")
AllParagraphs(doc) == Flatten(Flatten(doc.containers)) \o doc.loose

BodyParts(doc, impl) ==
  LET fromArticle == ScanSelectors(doc.containers, impl)
      fromParas == SelectSeq(NonEmptyTexts(AllParagraphs(doc)),
                             LAMBDA t : TLen(t) > MinParaLen)
      fromDivs == SelectSeq([k \in 1..Len(doc.divs) |-> GetText(doc.divs[k])],
                            LAMBDA t : TLen(t) > MinDivLen /\ WordCount(t) > MinDivWords)
  IN  IF fromArticle # <<>> THEN fromArticle
      ELSE IF fromParas # <<>> THEN fromParas
           ELSE fromDivs

\* the two re.sub calls on the joined parts
CleanBody(joined) == StripSpecial(CollapseWs(joined))

\* WebScrapingService.extract_content / main.py scrape_content
extract_content(doc, impl) ==
  [heading |-> TruncateHeading(SelectHeading(doc)),
   body |-> CleanBody(JoinSpace(BodyParts(doc, impl)))]

(* ------------------------ pages and the network ------------------------ *)
M_html == <<"<", "h", "t", "m", "l">>

M_HTML == <<"<", "H", "T", "M", "L">>

M_Div == <<"<", "D", "i", "v">>

M_p == <<"<", "p", ">">>

\* the tags fetch_content looks for in content.lower()
HtmlTags ==
  { <<"<", "h", "t", "m", "l">>, <<"<", "b", "o", "d", "y">>,
    <<"<", "a", "r", "t", "i", "c", "l", "e">>, <<"<", "d", "i", "v">> }

\* a response body: the text it starts with, len(content), and what the
\* parser makes of it
MkPage(markup, size, doc) == [markup |-> markup, size |-> size, doc |-> doc]

Pages ==
  {MkPage(M_html, MinHtmlLen + 1, d) : d \in Docs}
    \cup { MkPage(M_HTML, MinHtmlLen + 100, DocShort),
           MkPage(M_Div, MinHtmlLen + 1, DocEmpty),
           MkPage(M_html, MinHtmlLen, DocArticle),
           MkPage(M_p, MinHtmlLen + 100, DocArticle),
           MkPage(<<>>, 0, DocEmpty) }

OkStatus == {200, 201, 202}

OtherStatus == {204, 301, 403, 404, 503}

\* what aiohttp raises inside the try block
Exceptions == {"TimeoutError", "ClientSSLError", "ClientError", "InvalidURL", "UnicodeDecodeError"}

MkResponse(status, page) == [kind |-> "response", status |-> status, page |-> page]

MkRaise(exc) == [kind |-> "raise", exc |-> exc]

\* a URL aiohttp can send a request for
Fetchable(u) == Scheme(u) \in {"http", "https"} /\ Host(u) # <<>>

\* what one session.get(current_url) can come back with
NetOutcomes(u) ==
  IF Fetchable(u)
  THEN {MkResponse(st, pg) : st \in OkStatus, pg \in Pages}
         \cup {MkResponse(st, MkPage(M_html, MinHtmlLen + 1, DocArticle)) : st \in OtherStatus}
         \cup {MkRaise(e) : e \in Exceptions \ {"InvalidURL"}}
  ELSE {MkRaise("InvalidURL")}

\* the list with the relaxed configuration tried first
approachesRelaxedFirst ==
  << [ssl |-> TRUE,  timeout |-> 20, verify_ssl |-> FALSE, force_http |-> FALSE],
     [ssl |-> TRUE,  timeout |-> 15, verify_ssl |-> TRUE,  force_http |-> FALSE],
     [ssl |-> FALSE, timeout |-> 15, verify_ssl |-> TRUE,  force_http |-> TRUE] >>

approaches ==
  << [ssl |-> TRUE,  timeout |-> 15, verify_ssl |-> TRUE,  force_http |-> FALSE],
     [ssl |-> TRUE,  timeout |-> 20, verify_ssl |-> FALSE, force_http |-> FALSE],
     [ssl |-> FALSE, timeout |-> 15, verify_ssl |-> TRUE,  force_http |-> TRUE] >>

\* the connector the approach builds
TlsMode(a) == IF a.ssl THEN (IF a.verify_ssl THEN "strict" ELSE "relaxed") ELSE "none"

\* current_url of the approach
CurrentUrl(a, url) ==
  IF ~a.ssl /\ a.force_http /\ StartsWithHttps(url) THEN ReplaceHttps(url) ELSE url

\* response.status in [200, 201, 202]
StatusOk(status) == status \in OkStatus

\* any(tag in content.lower() for tag in [...])
HasHtmlTag(page) == \E tag \in HtmlTags : Contains(Lower(page.markup), tag)

\* the length test written with >=
ContentAdequateAtLeast(page) == page.size >= MinHtmlLen /\ HasHtmlTag(page)

\* len(content) > 500 and any(tag in content.lower() ...)
ContentAdequate(page) == page.size > MinHtmlLen /\ HasHtmlTag(page)

\* a handler that only expects the request to time out
CaughtTimeoutOnly(impl, exc) == exc = "TimeoutError"

\* the except clauses around one attempt: TRUE when the exception is caught
\* and the loop goes on (the service catches Exception; main.py lists
\* TimeoutError, ClientSSLError, ClientError and then Exception)
Caught(impl, exc) ==
  IF impl = "main"
  THEN exc = "TimeoutError" \/ exc = "ClientSSLError" \/ exc \in {"ClientError", "InvalidURL"}
         \/ exc \in Exceptions
  ELSE exc \in Exceptions

(* ------------------------- classifier results -------------------------- *)
S_positive == <<"p", "o", "s", "i", "t", "i", "v", "e">>

S_negative == <<"n", "e", "g", "a", "t", "i", "v", "e">>

S_neutral == <<"n", "e", "u", "t", "r", "a", "l">>

SentimentType == {S_positive, S_negative, S_neutral}

L_POSITIVE == <<"P", "O", "S", "I", "T", "I", "V", "E">>

L_NEGATIVE == <<"N", "E", "G", "A", "T", "I", "V", "E">>

L_LABEL_0 == <<"L", "A", "B", "E", "L", "_", "0">>

L_LABEL_1 == <<"L", "A", "B", "E", "L", "_", "1">>

L_Positive == <<"P", "o", "s", "i", "t", "i", "v", "e">>

L_label_0 == <<"l", "a", "b", "e", "l", "_", "0">>

L_unknown == <<"u", "n", "k", "n", "o", "w", "n">>

Labels ==
  {L_POSITIVE, L_NEGATIVE, L_LABEL_0, L_LABEL_1, L_Positive, L_label_0, L_unknown}

Scores == {(k * ScoreUnit) \div ScoreGrid : k \in 0..ScoreGrid} \cup {950}

\* the first element of the classifier's list: a dict with or without its
\* keys, or something that is not a dict
SentimentData ==
  {[dict |-> TRUE, fields |-> [label |-> l, score |-> s]] : l \in Labels, s \in Scores}
    \cup {[dict |-> TRUE, fields |-> [score |-> s]] : s \in Scores}
    \cup {[dict |-> TRUE, fields |-> [label |-> l]] : l \in {L_POSITIVE, L_unknown}}
    \cup {[dict |-> FALSE, fields |-> <<>>]}

\* the text the summarizer returns
SummaryText == W(40)

\* what the two pipeline calls come back with: an exception, or the two lists
ModelOutcomes ==
  {[kind |-> "raise", summary |-> <<>>, sentiment |-> <<>>]}
    \cup {[kind |-> "lists", summary |-> <<>>, sentiment |-> <<d>>] :
            d \in {[dict |-> TRUE, fields |-> [label |-> L_POSITIVE, score |-> 950]]}}
    \cup {[kind |-> "lists", summary |-> <<SummaryText>>, sentiment |-> <<>>]}
    \cup {[kind |-> "lists", summary |-> <<SummaryText>>, sentiment |-> <<d>>] :
            d \in SentimentData}

\* dict.get(key, default)
Get(d, key, default) == IF key \in DOMAIN d THEN d[key] ELSE default

\* the lookup without .upper()
MapLabelExact(label) ==
  IF label = L_POSITIVE \/ label = L_LABEL_1 THEN S_positive
  ELSE IF label = L_NEGATIVE \/ label = L_LABEL_0 THEN S_negative
       ELSE S_neutral

\* sentiment_mapping.get(sentiment_label.upper(), SentimentType.NEUTRAL)
MapLabel(label) ==
  LET u == Upper(label)
  IN  IF u = L_POSITIVE \/ u = L_LABEL_1 THEN S_positive
      ELSE IF u = L_NEGATIVE \/ u = L_LABEL_0 THEN S_negative
           ELSE S_neutral

\* AIService._calculate_breakdown, in units of 1/(10*ScoreUnit)
_calculate_breakdown(sentiment, score) ==
  IF sentiment = S_positive
  THEN [positive |-> 10 * score,
        neutral |-> (ScoreUnit - score) * 6,
        negative |-> (ScoreUnit - score) * 4]
  ELSE IF sentiment = S_negative
       THEN [negative |-> 10 * score,
             neutral |-> (ScoreUnit - score) * 6,
             positive |-> (ScoreUnit - score) * 4]
       ELSE [neutral |-> 6 * ScoreUnit,
             positive |-> 2 * ScoreUnit,
             negative |-> 2 * ScoreUnit]

RECURSIVE SumOver(_, _)
SumOver(f, keys) ==
  IF keys = {} THEN 0
  ELSE LET k == CHOOSE x \in keys : TRUE IN f[k] + SumOver(f, keys \ {k})

\* sum(v.values())
BreakdownSum(b) == SumOver(b, DOMAIN b)

Abs(x) == IF x < 0 THEN -x ELSE x

\* SentimentModel.validate_breakdown: TRUE when the validator accepts
validate_breakdown(v) ==
  IF DOMAIN v # {} THEN Abs(BreakdownSum(v) - 10 * ScoreUnit) <= BreakdownTol ELSE TRUE

\* Field(..., ge=0, le=1) of score and confidence
ScoreInRange(score) == score >= 0 /\ score <= ScoreUnit

\* AIService.analyze_sentiment: the SentimentModel, or raised
analyze_sentiment(out) ==
  IF out.kind = "raise" \/ out.summary = <<>> \/ out.sentiment = <<>>
  THEN [raised |-> TRUE]
  ELSE LET data == out.sentiment[1]
           sentiment_label == IF data.dict THEN Get(data.fields, "label", L_unknown) ELSE L_unknown
           sentiment_score == IF data.dict THEN Get(data.fields, "score", 0) ELSE 0
           sentiment_type == MapLabel(sentiment_label)
           breakdown == _calculate_breakdown(sentiment_type, sentiment_score)
       IN  IF ScoreInRange(sentiment_score) /\ validate_breakdown(breakdown)
           THEN [raised |-> FALSE, sentiment |-> sentiment_type, score |-> sentiment_score,
                 confidence |-> sentiment_score, breakdown |-> breakdown,
                 label |-> sentiment_label, model_summary |-> out.summary[1]]
           ELSE [raised |-> TRUE]

\* 'No summary available'
NoSummary == <<(<<"w", 2>>), (<<"s", 1>>), (<<"w", 7>>), (<<"s", 1>>), (<<"w", 9>>)>>

\* the model handling of main.py analyze_text_direct: an empty list stands
\* for {} and the defaults of .get() fill the answer
analyze_text_direct(out) ==
  IF out.kind = "raise"
  THEN [raised |-> TRUE]
  ELSE LET has_data == out.sentiment # <<>> /\ out.sentiment[1].dict
           fields == IF has_data THEN out.sentiment[1].fields ELSE <<>>
       IN  [raised |-> FALSE,
            label |-> IF out.sentiment # <<>> /\ ~out.sentiment[1].dict THEN L_unknown
                      ELSE Get(fields, "label", L_unknown),
            score |-> IF out.sentiment # <<>> /\ ~out.sentiment[1].dict THEN 0
                      ELSE Get(fields, "score", 0),
            model_summary |-> IF out.summary = <<>> THEN NoSummary ELSE out.summary[1]]

\* the inline model handling of main.py analyze_article
main_classify(out) ==
  IF out.kind = "raise" \/ out.summary = <<>> \/ out.sentiment = <<>>
  THEN [raised |-> TRUE]
  ELSE LET data == out.sentiment[1]
       IN  [raised |-> FALSE,
            label |-> IF data.dict THEN Get(data.fields, "label", L_unknown) ELSE L_unknown,
            score |-> IF data.dict THEN Get(data.fields, "score", 0) ELSE 0,
            model_summary |-> out.summary[1]]

(* ------------------------------ records -------------------------------- *)
\* Python's None, for the values that are records
None == [none |-> TRUE]

\* ids: <<>> is None, <<"ObjectId", n>> the driver's ObjectId,
\* <<"str", n>> its str(), <<"memory", k>> the string f"memory-{k}"
IsStrOrNone(v) == v = <<>> \/ v[1] # "ObjectId"

\* text[:200] + "..." if len(text) > 200 else text
Abbreviate(t) == IF TLen(t) > SummaryLen THEN Cat(Take(t, SummaryLen), Dots) ELSE t

\* AnalysisModel with its ArticleModel and SentimentModel
MkAnalysis(id, url, title, summary, sentiment, score, confidence, breakdown) ==
  [id |-> id, url |-> url, title |-> title, summary |-> summary,
   sentiment |-> sentiment, score |-> score, confidence |-> confidence,
   breakdown |-> breakdown]

\* AnalysisModel.to_database_document
to_database_document(a) ==
  [url |-> a.url, heading |-> a.title, summary |-> a.summary,
   sentiment |-> Upper(a.sentiment), score |-> a.score,
   confidence |-> a.confidence, breakdown |-> a.breakdown]

\* collection.insert_one stores the document under a fresh ObjectId
WithId(doc, n) == [k \in DOMAIN doc \cup {"_id"} |-> IF k = "_id" THEN <<"ObjectId", n>> ELSE doc[k]]

\* AnalysisModel.from_database_document: the model, or raised by a validator
from_database_document(doc) ==
  LET id == Get(doc, "_id", <<>>)
      breakdown == Get(doc, "breakdown", <<>>)
      sentiment == Lower(doc.sentiment)
  IN  IF /\ IsStrOrNone(id)
         /\ ArticleModel_validate_url(doc.url)
         /\ ArticleModel_validate_title(doc.heading)
         /\ sentiment \in SentimentType
         /\ ScoreInRange(doc.score)
         /\ ScoreInRange(Get(doc, "confidence", doc.score))
         /\ validate_breakdown(breakdown)
      THEN [raised |-> FALSE,
            analysis |-> MkAnalysis(id, doc.url, Strip(doc.heading), doc.summary, sentiment,
                                    doc.score, Get(doc, "confidence", doc.score), breakdown)]
      ELSE [raised |-> TRUE]

\* what a call on the collection can do
DbOutcomes == {"ok", "PyMongoError"}

\* what insert_one can do: "Exception" is an error that is not a PyMongoError
\* (bson.errors.InvalidDocument, TypeError, ...)
InsertOutcomes == DbOutcomes \cup {"Exception"}

\* what the statements on the in-memory list can do
MemOutcomes == {"ok", "Exception"}

\* nothing is removed before the insertion
WithoutUrlKeepAll(mem, url) == mem

\* the list without the analyses of that URL
WithoutUrl(mem, url) == SelectSeq(mem, LAMBDA a : a.url # url)

\* AnalysisRepository.save_analysis: the new collection, the new memory list
\* and the analysis it returns, or raised: only a PyMongoError of insert_one
\* leads to the memory fallback, and an error of the fallback is raised again
save_analysis(analysis, connected, db, mo, docs, mem) ==
  IF connected /\ db = "ok"
  THEN [raised |-> FALSE,
        docs |-> Append(docs, WithId(to_database_document(analysis), Len(docs) + 1)),
        mem |-> mem,
        analysis |-> [analysis EXCEPT !.id = <<"str", Len(docs) + 1>>]]
  ELSE IF (connected /\ db = "Exception") \/ mo = "Exception"
       THEN [raised |-> TRUE, docs |-> docs, mem |-> mem, analysis |-> analysis]
       ELSE LET kept == WithoutUrl(mem, analysis.url)
                saved == [analysis EXCEPT !.id = IF analysis.id # <<>> THEN analysis.id
                                                  ELSE <<"memory", Len(kept)>>]
                grown == <<saved>> \o kept
            IN  [raised |-> FALSE,
                 docs |-> docs,
                 mem |-> IF Len(grown) > max_memory_items
                         THEN SubSeq(grown, 1, max_memory_items) ELSE grown,
                 analysis |-> saved]

Reverse(s) == [k \in 1..Len(s) |-> s[Len(s) + 1 - k]]

RECURSIVE ParseDocs(_)
\* the loop of get_recent_analyses: documents that do not parse are skipped
ParseDocs(docs) ==
  IF docs = <<>> THEN <<>>
  ELSE LET r == from_database_document(Head(docs))
       IN  (IF r.raised THEN <<>> ELSE <<r.analysis>>) \o ParseDocs(Tail(docs))

\* AnalysisRepository.get_recent_analyses
get_recent_analyses(limit, connected, db, docs, mem) ==
  LET newest == Reverse(docs)
      analyses == IF connected /\ db = "ok"
                  THEN ParseDocs(SubSeq(newest, 1, IF Len(newest) < limit THEN Len(newest) ELSE limit))
                  ELSE <<>>
  IN  IF analyses # <<>> THEN analyses
      ELSE SubSeq(mem, 1, IF Len(mem) < limit THEN Len(mem) ELSE limit)

\* the three AnalysisModel of main_mvc.py add_sample_data
SampleAnalyses ==
  << MkAnalysis(<<>>, <<"https", "://", "example.com", "/positive-news">>, W(10), W(20),
                S_positive, 890, 890, [positive |-> 8900, neutral |-> 700, negative |-> 400]),
     MkAnalysis(<<>>, <<"https", "://", "example.com", "/neutral-news">>, W(10), W(20),
                S_neutral, 520, 520, [positive |-> 3000, neutral |-> 5200, negative |-> 1800]),
     MkAnalysis(<<>>, <<"https", "://", "example.com", "/negative-news">>, W(10), W(20),
                S_negative, 780, 780, [positive |-> 900, neutral |-> 1300, negative |-> 7800]) >>

\* the result dictionary of main.py analyze_article
MkResult(url, heading, summary, sentiment, score) ==
  [url |-> url, heading |-> heading, summary |-> summary,
   sentiment |-> sentiment, score |-> score]

\* the dictionary main.py analyze_text_direct returns
MkTextResult(text, summary, sentiment, score) ==
  [text |-> Abbreviate(text), summary |-> summary, sentiment |-> sentiment, score |-> score]

\* the storage block dropping the entry next to the new one
insert_history_drop_second(res, hist) ==
  LET grown == <<res>> \o hist
  IN  IF Len(grown) > max_memory_items THEN <<res>> \o SubSeq(hist, 2, Len(hist)) ELSE grown

\* the in-memory branch of the storage block of main.py analyze_article:
\* insert(0, result_copy), then one pop() when more than 50 are held
insert_history(res, hist) ==
  LET grown == <<res>> \o hist
  IN  IF Len(grown) > max_memory_items THEN SubSeq(grown, 1, Len(grown) - 1) ELSE grown

\* the three dictionaries of main.py add_sample_data
sample_analyses ==
  << MkResult(<<"https", "://", "example.com", "/positive-news">>, W(10), W(20), L_POSITIVE, 890),
     MkResult(<<"https", "://", "example.com", "/neutral-news">>, W(10), W(20), Upper(S_neutral), 520),
     MkResult(<<"https", "://", "example.com", "/negative-news">>, W(10), W(20), L_NEGATIVE, 780) >>

(* ------------------------------- state --------------------------------- *)
VARIABLES
  app,                 \* the application the process runs: main_mvc.py or main.py
  collection,          \* TRUE when the MongoDB collection handle is not None
  dbDocs,              \* the documents of the scraped_articles collection
  in_memory_storage,   \* AnalysisRepository.in_memory_storage
  in_memory_history,   \* main.py in_memory_history
  sampleCalls,         \* calls of an add-sample-data endpoint so far
  saves,               \* saves of finished requests so far
  recent,              \* what the last get_recent_analyses returned
  cleared_count,       \* what the last clear_all_analyses returned
  tasks,               \* where each request in flight on the event loop stands
  running,             \* the request whose synchronous call holds the loop's thread (0: none)
  pc,                  \* where the invocation stands
  entry,               \* which entry point was invoked
  input,               \* the URL or the text it was invoked with
  attempts,            \* the session.get calls of fetch_content so far
  response,            \* what the last session.get came back with
  html,                \* what fetch_content returned
  fetch_raised,        \* fetch_content let an exception out
  heading,             \* extract_content's heading
  body,                \* extract_content's body
  content_for_analysis,\* the text handed to the models
  model_calls,         \* calls of the summarizer/classifier pair so far
  model_result,        \* what the summarizer and the classifier came back with
  sentiment,           \* what the classification step produced
  trace,               \* the coordinator steps taken, in order
  outcome,             \* how the invocation ended
  http_status,         \* the status the HTTP caller sees (0: no HTTP layer)
  detail,              \* the error text the caller gets (<<>>: none)
  result               \* the record handed back on success

vars ==
  <<app, collection, dbDocs, in_memory_storage, in_memory_history, sampleCalls, saves, recent,
    cleared_count, tasks, running,
    pc, entry, input, attempts, response, html, fetch_raised, heading, body,
    content_for_analysis, model_calls, model_result, sentiment, trace, outcome, http_status, detail, result>>

storeVars ==
  <<app, collection, dbDocs, in_memory_storage, in_memory_history, sampleCalls, saves, recent,
    cleared_count, tasks, running>>

UrlEntries == {"mvc_url", "svc_url", "main_url"}

TextEntries == {"mvc_text", "svc_text"}

\* POST /analyze-text/ of main.py
MainTextEntry == "main_text"

Entries == UrlEntries \cup TextEntries \cup {MainTextEntry}

\* the texts a caller posts
Texts ==
  {W(MinTextLen - 1), W(MinTextLen), Cat(Cat(Space, W(MinTextLen - 1)), Space),
   Cat(Space, W(MinTextLen)), W(58), W(WindowLen + 1)}

\* the two applications of the repository: main_mvc.py with the service
\* classes, and main.py
Apps == {"main_mvc", "main"}

\* the requests the event loop serves at once
Invocations == 1..MaxInvocations

\* a request that has not arrived yet
TaskIdle == [at |-> "idle", attempt |-> 0]

\* main.py or the service classes
Impl(e) == IF e \in {"main_url", MainTextEntry} THEN "main" ELSE "service"

\* no entry hands its result to the repository
ViaControllerNever(e) == FALSE

\* the entries that go through AnalysisController
ViaController(e) == e \in {"mvc_url", "mvc_text"}

Init ==
  /\ app \in Apps
  /\ collection \in BOOLEAN
  /\ dbDocs = <<>>
  /\ in_memory_storage = <<>>
  /\ in_memory_history = <<>>
  /\ sampleCalls = 0
  /\ saves = 0
  /\ recent = <<>>
  /\ cleared_count = 0
  /\ tasks = [i \in Invocations |-> TaskIdle]
  /\ running = 0
  /\ pc = "idle"
  /\ entry = "none"
  /\ input = <<>>
  /\ attempts = <<>>
  /\ response = None
  /\ html = None
  /\ fetch_raised = FALSE
  /\ heading = <<>>
  /\ body = <<>>
  /\ content_for_analysis = <<>>
  /\ model_calls = 0
  /\ model_result = None
  /\ sentiment = None
  /\ trace = <<>>
  /\ outcome = "pending"
  /\ http_status = 0
  /\ detail = <<>>
  /\ result = None

\* one fixed text for every failure
DetailFixed(kind) == <<"Analysis failed: ", kind>>

\* the text of error_response(...) or of HTTPException(detail=...): the
\* f-strings of the fetch failure carry the URL of the request
Detail(kind) ==
  IF kind = "FetchError"
  THEN IF Impl(entry) = "main"
       THEN <<"Unable to access the website at ">> \o input
              \o <<". ", "This could be due to: ... Try: ...">>
       ELSE <<"Unable to access the website at ">> \o input
              \o <<". This could be due to the website blocking automated requests or network issues.">>
  ELSE IF kind = "ContentError"
       THEN IF Impl(entry) = "main"
            THEN <<"Article content too short or no readable text content found">>
            ELSE <<"No readable text content found in the article. Please try a different URL with more accessible text content.">>
       ELSE IF kind = "ValidationError"
            THEN IF entry = "main_url" THEN <<"URL validation failed: ", "400: Invalid URL format">>
                 ELSE IF entry = MainTextEntry
                      THEN <<"Please provide text with at least 10 characters">>
                      ELSE IF entry \in TextEntries
                           THEN <<"Text must be at least 10 characters long">>
                           ELSE <<"URL must start with http:// or https://">>
            ELSE IF Impl(entry) = "main"
                 THEN <<"Error processing with AI models">>
                 ELSE IF entry \in TextEntries
                      THEN <<"Text analysis failed: ", kind>>
                      ELSE <<"Analysis failed: ", kind>>

\* the invocation ends in a failure
Fail(kind, status) ==
  /\ pc' = "done"
  /\ outcome' = kind
  /\ http_status' = status
  /\ detail' = Detail(kind)

(* ------------------------------ actions -------------------------------- *)
\* a request arrives: POST /analyze/ or /analyze-text/ of main_mvc.py, POST
\* /analyze/ of main.py, or a direct call of AnalysisService
Start ==
  /\ pc = "idle"
  /\ \E e \in {x \in Entries : Impl(x) = (IF app = "main" THEN "main" ELSE "service")} :
       /\ entry' = e
       /\ input' \in (IF e \in UrlEntries THEN Urls ELSE Texts)
       /\ pc' = IF e = "svc_url" THEN "fetch"
                ELSE IF e = "svc_text" THEN "check_text" ELSE "validate"
  /\ UNCHANGED <<storeVars, attempts, response, html, fetch_raised, heading, body,
                 content_for_analysis, model_calls, model_result, sentiment, trace, outcome,
                 http_status, detail, result>>

\* URLInputModel / TextInputModel in front of the controller (FastAPI answers
\* 422), the urlparse gate of main.py analyze_article and the length test of
\* main.py analyze_text_direct (400), which goes on with text[:1000]
ValidateInput ==
  /\ pc = "validate"
  /\ trace' = Append(trace, "validate")
  /\ LET ok == IF entry = "mvc_url" THEN URLInputModel_validate_url(input)
               ELSE IF entry = "main_url" THEN main_validate_url(input)
               ELSE IF entry = MainTextEntry
                    THEN input # <<>> /\ TLen(Strip(input)) >= MinTextLen
                    ELSE TLen(input) >= MinTextLen /\ TLen(Strip(input)) >= MinTextLen
     IN  IF ok
         THEN /\ pc' = IF entry = "mvc_text" THEN "check_text"
                       ELSE IF entry = MainTextEntry THEN "classify" ELSE "fetch"
              /\ input' = IF entry = "mvc_text" THEN Strip(input) ELSE input
              /\ content_for_analysis' = IF entry = MainTextEntry THEN Take(input, WindowLen)
                                         ELSE content_for_analysis
              /\ UNCHANGED <<outcome, http_status, detail>>
         ELSE /\ Fail("ValidationError", IF Impl(entry) = "main" THEN 400 ELSE 422)
              /\ UNCHANGED <<input, content_for_analysis>>
  /\ UNCHANGED <<storeVars, entry, attempts, response, html, fetch_raised, heading, body,
                 model_calls, model_result, sentiment, result>>

\* the length check at the head of AnalysisService.analyze_text
CheckText ==
  /\ pc = "check_text"
  /\ trace' = Append(trace, "validate")
  /\ IF TLen(Strip(input)) < MinTextLen
     THEN /\ Fail("ValidationError", IF ViaController(entry) THEN 400 ELSE 0)
          /\ UNCHANGED content_for_analysis
     ELSE /\ pc' = "classify"
          /\ content_for_analysis' = input
          /\ UNCHANGED <<outcome, http_status, detail>>
  /\ UNCHANGED <<storeVars, entry, input, attempts, response, html, fetch_raised, heading,
                 body, model_calls, model_result, sentiment, result>>

\* one iteration of the loop of fetch_content
FetchAttempt ==
  /\ pc = "fetch"
  /\ LET k == Len(attempts) + 1
         a == approaches[k]
         cur == CurrentUrl(a, input)
     IN  /\ attempts' = Append(attempts, [cfg |-> k, url |-> cur, tls |-> TlsMode(a),
                                          timeout |-> a.timeout])
         /\ trace' = IF k = 1 THEN Append(trace, "fetch") ELSE trace
         /\ \E out \in NetOutcomes(cur) :
              /\ response' = out
              /\ IF out.kind = "raise" /\ ~Caught(Impl(entry), out.exc)
                 THEN fetch_raised' = TRUE /\ html' = None /\ pc' = "fetched"
                 ELSE IF out.kind = "response" /\ StatusOk(out.status)
                                               /\ ContentAdequate(out.page)
                      THEN fetch_raised' = FALSE /\ html' = out.page /\ pc' = "fetched"
                      ELSE /\ fetch_raised' = FALSE
                           /\ html' = None
                           /\ pc' = IF k = Len(approaches) THEN "fetched" ELSE "fetch"
  /\ UNCHANGED <<storeVars, entry, input, heading, body, content_for_analysis, model_calls, model_result,
                 sentiment, outcome, http_status, detail, result>>

\* `if not html:` after fetch_content returned; the response object does
\* not outlive the call
AfterFetch ==
  /\ pc = "fetched"
  /\ IF fetch_raised
     THEN Fail("UnexpectedError", IF entry = "main_url" THEN 500
                                  ELSE IF ViaController(entry) THEN 400 ELSE 0)
     ELSE IF html = None
          THEN Fail("FetchError", IF entry = "svc_url" THEN 0 ELSE 400)
          ELSE pc' = "extract" /\ UNCHANGED <<outcome, http_status, detail>>
  /\ response' = None
  /\ UNCHANGED <<storeVars, entry, input, attempts, html, fetch_raised, heading,
                 body, content_for_analysis, model_calls, model_result, sentiment, trace, result>>

\* heading, body = extract_content(html)
Extract ==
  /\ pc = "extract"
  /\ trace' = Append(trace, "extract")
  /\ LET e == extract_content(html.doc, Impl(entry))
     IN  heading' = e.heading /\ body' = e.body
  /\ pc' = "gate"
  /\ UNCHANGED <<storeVars, entry, input, attempts, response, html, fetch_raised,
                 content_for_analysis, model_calls, model_result, sentiment, outcome, http_status, detail, result>>

\* the threshold test written with <=
ContentTooShortInclusive(b) == Strip(b) = <<>> \/ TLen(Strip(b)) <= MinContent

\* `not body.strip() or len(body.strip()) < 50`: TRUE when the body is refused
ContentTooShort(b) == Strip(b) = <<>> \/ TLen(Strip(b)) < MinContent

\* body[:1000], or heading + ". " + body cut to 1000 when that is too short
AnalysisWindow(h, b) ==
  IF TLen(Strip(Take(b, WindowLen))) < MinContent
  THEN Take(Cat(Cat(h, DotSpace), b), WindowLen)
  ELSE Take(b, WindowLen)

\* the content check and the preparation of the analysis window
ContentGate ==
  /\ pc = "gate"
  /\ IF ContentTooShort(body)
     THEN /\ Fail("ContentError", IF entry = "svc_url" THEN 0 ELSE 400)
          /\ UNCHANGED content_for_analysis
     ELSE /\ content_for_analysis' = AnalysisWindow(heading, body)
          /\ pc' = "classify"
          /\ UNCHANGED <<outcome, http_status, detail>>
  /\ UNCHANGED <<storeVars, entry, input, attempts, response, html, fetch_raised, heading,
                 body, model_calls, model_result, sentiment, trace, result>>

\* the summarizer and the classifier are called on the window
Classify ==
  /\ pc = "classify"
  /\ trace' = Append(trace, "classify")
  /\ model_calls' = model_calls + 1
  /\ \E out \in ModelOutcomes :
       LET r == IF entry = MainTextEntry THEN analyze_text_direct(out)
                ELSE IF Impl(entry) = "main" THEN main_classify(out)
                     ELSE analyze_sentiment(out)
       IN  /\ model_result' = out
           /\ IF r.raised
              THEN /\ Fail("ClassificationError", IF Impl(entry) = "main" THEN 500
                                                  ELSE IF ViaController(entry) THEN 400 ELSE 0)
                   /\ UNCHANGED sentiment
              ELSE /\ sentiment' = r
                   /\ pc' = "assemble"
                   /\ UNCHANGED <<outcome, http_status, detail>>
  /\ UNCHANGED <<storeVars, entry, input, attempts, response, html, fetch_raised, heading,
                 body, content_for_analysis, result>>

\* the url ArticleModel is built with
ArticleUrl(e, in) == IF e \in TextEntries THEN UrlTextInput ELSE in

\* the title ArticleModel is built with ("Text Analysis" for a text)
ArticleTitle(e, h) == IF e \in TextEntries THEN <<(<<"w", 4>>), (<<"s", 1>>), (<<"w", 8>>)>> ELSE h

\* ArticleModel(...) and AnalysisModel(...) in the service; the result
\* dictionary in main.py, which analyze_text_direct returns at once
Assemble ==
  /\ pc = "assemble"
  /\ trace' = Append(trace, "assemble")
  /\ IF entry = MainTextEntry
     THEN /\ result' = MkTextResult(input, sentiment.model_summary, sentiment.label,
                                    sentiment.score)
          /\ pc' = "done"
          /\ outcome' = "record"
          /\ http_status' = 200
          /\ detail' = <<>>
     ELSE IF Impl(entry) = "main"
     THEN /\ result' = MkResult(input, heading, sentiment.model_summary, sentiment.label,
                                sentiment.score)
          /\ pc' = "save"
          /\ UNCHANGED <<outcome, http_status, detail>>
     ELSE LET url == ArticleUrl(entry, input)
              title == ArticleTitle(entry, heading)
          IN  IF ArticleModel_validate_url(url) /\ ArticleModel_validate_title(title)
              THEN /\ result' = MkAnalysis(<<>>, url, Strip(title),
                                           Abbreviate(content_for_analysis),
                                           sentiment.sentiment, sentiment.score,
                                           sentiment.confidence, sentiment.breakdown)
                   /\ IF ViaController(entry)
                      THEN pc' = "save" /\ UNCHANGED <<outcome, http_status, detail>>
                      ELSE pc' = "done" /\ outcome' = "record" /\ UNCHANGED <<http_status, detail>>
              ELSE /\ Fail("RecordError", IF ViaController(entry) THEN 400 ELSE 0)
                   /\ UNCHANGED result
  /\ UNCHANGED <<storeVars, entry, input, attempts, response, html, fetch_raised, heading,
                 body, content_for_analysis, model_calls, model_result, sentiment>>

\* AnalysisRepository.save_analysis from the controller, whose `except
\* Exception` answers 500 when it raises; the storage block at the end of
\* main.py analyze_article, which logs every error and returns the result
Save ==
  /\ pc = "save"
  /\ trace' = Append(trace, "save")
  /\ \E db \in InsertOutcomes, mo \in MemOutcomes :
       IF Impl(entry) = "main"
       THEN /\ dbDocs' = IF collection /\ db = "ok"
                         THEN Append(dbDocs, WithId(result, Len(dbDocs) + 1)) ELSE dbDocs
            /\ in_memory_history' =
                 IF collection \/ mo = "Exception" THEN in_memory_history
                 ELSE insert_history(result, in_memory_history)
            /\ UNCHANGED <<in_memory_storage, result>>
            /\ outcome' = "record"
            /\ http_status' = 200
            /\ detail' = <<>>
       ELSE LET s == save_analysis(result, collection, db, mo, dbDocs, in_memory_storage)
            IN  /\ dbDocs' = s.docs
                /\ in_memory_storage' = s.mem
                /\ result' = s.analysis
                /\ UNCHANGED in_memory_history
                /\ outcome' = IF s.raised THEN "PersistenceError" ELSE "record"
                /\ http_status' = IF s.raised THEN 500 ELSE 200
                /\ detail' = IF s.raised THEN <<"Internal server error during analysis">> ELSE <<>>
  /\ pc' = "done"
  /\ UNCHANGED <<app, cleared_count, tasks, running, collection, sampleCalls, saves, recent, entry, input, attempts, response, html,
                 fetch_raised, heading, body, content_for_analysis, model_calls, model_result, sentiment>>

invVars ==
  <<pc, entry, input, attempts, response, html, fetch_raised, heading, body,
    content_for_analysis, model_calls, model_result, sentiment, trace, outcome, http_status, detail, result>>

\* no request is between two of its steps
Quiet == pc \in {"idle", "done"}

\* POST /add-sample-data/ of main_mvc.py: three save_analysis calls, each in
\* a try that logs what it raises; the database and the memory answer the
\* three calls of one request alike
AddSampleData ==
  /\ app = "main_mvc"
  /\ Quiet
  /\ sampleCalls < MaxSampleCalls
  /\ sampleCalls' = sampleCalls + 1
  /\ \E db \in InsertOutcomes, mo \in MemOutcomes :
       LET s1 == save_analysis(SampleAnalyses[1], collection, db, mo, dbDocs, in_memory_storage)
           s2 == save_analysis(SampleAnalyses[2], collection, db, mo, s1.docs, s1.mem)
           s3 == save_analysis(SampleAnalyses[3], collection, db, mo, s2.docs, s2.mem)
       IN  dbDocs' = s3.docs /\ in_memory_storage' = s3.mem
  /\ UNCHANGED <<app, cleared_count, tasks, running, collection, in_memory_history, saves, recent, invVars>>

\* POST /add-sample-data/ of main.py
add_sample_data ==
  /\ app = "main"
  /\ Quiet
  /\ sampleCalls < MaxSampleCalls
  /\ sampleCalls' = sampleCalls + 1
  /\ LET grown == Reverse(sample_analyses) \o in_memory_history
     IN  in_memory_history' = IF Len(grown) > max_memory_items
                              THEN SubSeq(grown, 1, max_memory_items) ELSE grown
  /\ UNCHANGED <<app, cleared_count, tasks, running, collection, dbDocs, in_memory_storage, saves, recent, invVars>>

\* GET /history/ of main_mvc.py: get_recent_analyses(50)
GetHistory ==
  /\ app = "main_mvc"
  /\ Quiet
  /\ \E db \in DbOutcomes :
       recent' = get_recent_analyses(max_memory_items, collection, db, dbDocs, in_memory_storage)
  /\ UNCHANGED <<app, cleared_count, tasks, running, collection, dbDocs, in_memory_storage, in_memory_history, sampleCalls, saves,
                 invVars>>

Next ==
  \/ Start
  \/ ValidateInput
  \/ CheckText
  \/ FetchAttempt
  \/ AfterFetch
  \/ Extract
  \/ ContentGate
  \/ Classify
  \/ Assemble
  \/ Save
  \/ GetHistory

\* one request from its arrival to its answer, and the history read after it
Spec == Init /\ [][Next]_vars

\* the steps of a request that has arrived
Pipeline ==
  \/ ValidateInput
  \/ CheckText
  \/ FetchAttempt
  \/ AfterFetch
  \/ Extract
  \/ ContentGate
  \/ Classify
  \/ Assemble
  \/ Save

\* a handler that has started keeps running: every session.get is bounded by
\* its timeout, the model calls are synchronous and return or raise
FairSpec == Spec /\ WF_vars(Pipeline)

\* the URL of the k-th article: https://example.com/news/a/a.../a
UrlN(k) == UrlHttps \o [i \in 1..k |-> "/a"]

\* the record a successful run of AnalysisService.analyze_url returns for u
AnalysisOf(u) ==
  MkAnalysis(<<>>, u, W(10), Abbreviate(W(58)), S_positive, 950, 950,
             _calculate_breakdown(S_positive, 950))

\* the result a successful run of main.py analyze_article builds for u
ResultOf(u) == MkResult(u, W(10), SummaryText, L_POSITIVE, 950)

\* in_memory_storage after the articles 1..k were saved without a database:
\* the newest first, the j-th saved under the id memory-(j-1)
Filled(k) ==
  [i \in 1..k |-> [AnalysisOf(UrlN(k + 1 - i)) EXCEPT !.id = <<"memory", k - i>>]]

\* in_memory_history after the articles 1..k were stored without a database
HistoryFilled(k) == [i \in 1..k |-> ResultOf(UrlN(k + 1 - i))]

\* how many saves the process has behind it when the observation starts:
\* none, one short of the capacity, or the capacity
Prefill == {0, max_memory_items - 1, max_memory_items}

\* the stores of a process that has run for a while; no request is in flight
StoreInit ==
  /\ app \in Apps
  /\ collection \in BOOLEAN
  /\ dbDocs = <<>>
  /\ \E k \in Prefill :
       /\ in_memory_storage = IF app = "main_mvc" THEN Filled(k) ELSE <<>>
       /\ in_memory_history = IF app = "main" /\ ~collection THEN HistoryFilled(k) ELSE <<>>
  /\ sampleCalls = 0
  /\ saves = 0
  /\ recent = <<>>
  /\ cleared_count = 0
  /\ tasks = [i \in Invocations |-> TaskIdle]
  /\ running = 0
  /\ pc = "idle"
  /\ entry = "none"
  /\ input = <<>>
  /\ attempts = <<>>
  /\ response = None
  /\ html = None
  /\ fetch_raised = FALSE
  /\ heading = <<>>
  /\ body = <<>>
  /\ content_for_analysis = <<>>
  /\ model_calls = 0
  /\ model_result = None
  /\ sentiment = None
  /\ trace = <<>>
  /\ outcome = "pending"
  /\ http_status = 0
  /\ detail = <<>>
  /\ result = None

\* the URLs of the requests that finish: an article not seen before, the
\* article stored last, or the article stored first
SaveUrls(stored) ==
  {UrlN(max_memory_items + 1 + saves)}
    \cup (IF stored = <<>> THEN {} ELSE {stored[1].url, stored[Len(stored)].url})

\* the save step of one of the requests of main_mvc.py in flight: the
\* controller hands the record of a successful run to save_analysis, which
\* has no await and so runs between the steps of the other requests
SaveAnalysis ==
  /\ app = "main_mvc"
  /\ Quiet
  /\ saves < MaxSaves
  /\ saves' = saves + 1
  /\ \E u \in SaveUrls(in_memory_storage), db \in InsertOutcomes, mo \in MemOutcomes :
       LET s == save_analysis(AnalysisOf(u), collection, db, mo, dbDocs, in_memory_storage)
       IN  dbDocs' = s.docs /\ in_memory_storage' = s.mem
  /\ UNCHANGED <<app, cleared_count, tasks, running, collection, in_memory_history, sampleCalls, recent, invVars>>

\* the storage block of one of the requests of main.py in flight
StoreResult ==
  /\ app = "main"
  /\ Quiet
  /\ saves < MaxSaves
  /\ saves' = saves + 1
  /\ \E u \in SaveUrls(in_memory_history), db \in InsertOutcomes, mo \in MemOutcomes :
       /\ dbDocs' = IF collection /\ db = "ok"
                    THEN Append(dbDocs, WithId(ResultOf(u), Len(dbDocs) + 1)) ELSE dbDocs
       /\ in_memory_history' = IF collection \/ mo = "Exception" THEN in_memory_history
                               ELSE insert_history(ResultOf(u), in_memory_history)
  /\ UNCHANGED <<app, cleared_count, tasks, running, collection, in_memory_storage, sampleCalls, recent, invVars>>

\* a clear that leaves the in-memory store as it is
ClearHistoryKeepMemory ==
  /\ app = "main_mvc"
  /\ Quiet
  /\ \E db \in DbOutcomes :
       /\ dbDocs' = IF collection /\ db = "ok" THEN <<>> ELSE dbDocs
       /\ cleared_count' = (IF collection /\ db = "ok" THEN Len(dbDocs) ELSE 0)
                             + Len(in_memory_storage)
  /\ UNCHANGED <<app, in_memory_storage, tasks, running, collection, in_memory_history, sampleCalls, saves, recent, invVars>>

\* DELETE /history/ of main_mvc.py: AnalysisRepository.clear_all_analyses
ClearHistory ==
  /\ app = "main_mvc"
  /\ Quiet
  /\ \E db \in DbOutcomes :
       /\ dbDocs' = IF collection /\ db = "ok" THEN <<>> ELSE dbDocs
       /\ cleared_count' = (IF collection /\ db = "ok" THEN Len(dbDocs) ELSE 0)
                             + Len(in_memory_storage)
  /\ in_memory_storage' = <<>>
  /\ UNCHANGED <<app, tasks, running, collection, in_memory_history, sampleCalls, saves, recent, invVars>>

StoreNext ==
  \/ AddSampleData
  \/ add_sample_data
  \/ SaveAnalysis
  \/ StoreResult
  \/ ClearHistory
  \/ GetHistory

\* the operations on the stores, in any order
StoreSpec == StoreInit /\ [][StoreNext]_vars

(* ------------------- several requests on the event loop ---------------- *)
\* The handlers are coroutines of one event loop: a coroutine runs from one
\* await to the next without giving the thread away, and the only awaits of
\* analyze_url / analyze_article are those of fetch_content.

\* how a resumed session.get ends for the coroutine
FetchEnds == {"adequate", "short", "failed"}

\* how the synchronous summarizer/classifier call ends
ModelEnds == {"record", "ClassificationError"}

TaskDone(kind) == [at |-> "done", attempt |-> 0, outcome |-> kind]

\* a request arrives and its handler runs up to the first session.get
Invoke(i) ==
  /\ running = 0
  /\ tasks[i].at = "idle"
  /\ tasks' = [tasks EXCEPT ![i] = [at |-> "fetch", attempt |-> 1]]
  /\ UNCHANGED <<app, collection, dbDocs, in_memory_storage, in_memory_history, sampleCalls,
                 saves, recent, cleared_count, running, invVars>>

\* the loop resumes the coroutine that waits in session.get: a failed
\* attempt goes on to the next approach or ends the request, a page with too
\* little text ends it, and an adequate page is extracted and handed to the
\* models by a plain call, which keeps the thread until it returns
FetchResume(i) ==
  /\ running = 0
  /\ tasks[i].at = "fetch"
  /\ \E end \in FetchEnds :
       IF end = "failed"
       THEN /\ tasks' = [tasks EXCEPT ![i] =
                           IF tasks[i].attempt < Len(approaches)
                           THEN [at |-> "fetch", attempt |-> tasks[i].attempt + 1]
                           ELSE TaskDone("FetchError")]
            /\ running' = 0
       ELSE IF end = "short"
            THEN tasks' = [tasks EXCEPT ![i] = TaskDone("ContentError")] /\ running' = 0
            ELSE tasks' = [tasks EXCEPT ![i] = [at |-> "model", attempt |-> 0]] /\ running' = i
  /\ UNCHANGED <<app, collection, dbDocs, in_memory_storage, in_memory_history, sampleCalls,
                 saves, recent, cleared_count, invVars>>

\* the summarizer/classifier call returns and the handler runs to its end
ModelReturn(i) ==
  /\ running = i
  /\ tasks[i].at = "model"
  /\ \E end \in ModelEnds : tasks' = [tasks EXCEPT ![i] = TaskDone(end)]
  /\ running' = 0
  /\ UNCHANGED <<app, collection, dbDocs, in_memory_storage, in_memory_history, sampleCalls,
                 saves, recent, cleared_count, invVars>>

LoopNext == \E i \in Invocations : Invoke(i) \/ FetchResume(i) \/ ModelReturn(i)

\* concurrent requests served by one event loop
LoopSpec == Init /\ [][LoopNext]_vars

(* ----------------------- the extractor on its own ---------------------- *)
RECURSIVE Words(_, _)
\* n words of len word characters each, one space between them
Words(n, len) == IF n <= 1 THEN W(len) ELSE Cat(Cat(W(len), Space), Words(n - 1, len))

\* two words with a special character between two spaces
Gapped == <<(<<"w", 4>>), (<<"s", 1>>), (<<"x", 1>>), (<<"s", 1>>), (<<"w", 4>>)>>

\* the text of the first h1: none, blank, short, of 200 and of 201 characters
ExtractH1s == {<<>>, Space, W(5), W(HeadingLen), W(HeadingLen + 1)}

\* the text of the title: none, short, and long behind a blank
ExtractTitles == {<<>>, W(3), Cat(Space, Cat(W(HeadingLen - 1), <<(<<"p", 50>>)>>))}

\* the first matches of the fallback selectors: none, or a blank h2 and an h3
ExtractFallbacks == {<<>>, <<Space, W(4)>>}

\* the elements the article selectors match: none; one article of two
\* paragraphs; an article of two blank paragraphs in front of a main landmark
\* of two paragraphs; an article of one paragraph in front of an article of two
ExtractContainers ==
  { <<>>,
    << << <<W(30), W(30)>> >> >>,
    << << <<Space, <<>>>> >>, << <<W(30), W(31)>> >> >>,
    << << <<W(30)>>, <<W(8), Gapped>> >> >> }

\* the paragraphs outside those elements
ExtractLoose == {<<>>, <<W(25)>>}

\* the div texts
ExtractDivs == {<<>>, <<Words(MinDivWords + 1, 9)>>}

ExtractDocs ==
  {MkDoc(h, t, f, c, l, d) : h \in ExtractH1s, t \in ExtractTitles, f \in ExtractFallbacks,
                             c \in ExtractContainers, l \in ExtractLoose, d \in ExtractDivs}

\* extract_content / scrape_content is about to be called with some page
ExtractInit ==
  /\ app \in Apps
  /\ collection \in BOOLEAN
  /\ dbDocs = <<>>
  /\ in_memory_storage = <<>>
  /\ in_memory_history = <<>>
  /\ sampleCalls = 0
  /\ saves = 0
  /\ recent = <<>>
  /\ cleared_count = 0
  /\ tasks = [i \in Invocations |-> TaskIdle]
  /\ running = 0
  /\ pc = "extract"
  /\ entry = (IF app = "main" THEN "main_url" ELSE "svc_url")
  /\ input = UrlHttps
  /\ attempts = <<>>
  /\ response = None
  /\ html \in {MkPage(M_html, MinHtmlLen + 1, d) : d \in ExtractDocs}
  /\ fetch_raised = FALSE
  /\ heading = <<>>
  /\ body = <<>>
  /\ content_for_analysis = <<>>
  /\ model_calls = 0
  /\ model_result = None
  /\ sentiment = None
  /\ trace = <<>>
  /\ outcome = "pending"
  /\ http_status = 0
  /\ detail = <<>>
  /\ result = None

ExtractNext == Extract

\* the extractor applied to a page
ExtractSpec == ExtractInit /\ [][ExtractNext]_vars

(* ------------------------------ properties ----------------------------- *)
Has(step) == \E k \in 1..Len(trace) : trace[k] = step

\* fetch_content was called and has returned
FetchReturned == Has("fetch") /\ pc # "fetch"

\* C1: when every configuration failed, fetch_content has returned None, has
\* let no exception out, and has made exactly 3 attempts, one per
\* configuration of the list
C1_AllConfigurationsFail ==
  /\ Len(attempts) <= 3
  /\ (FetchReturned /\ html = None) =>
        /\ ~fetch_raised
        /\ Len(attempts) = 3
        /\ \A k \in 1..3 : attempts[k].cfg = k

\* the third attempt was refused with 403 and fetch_content returned None
C1_Witness ==
  /\ pc = "fetched"
  /\ html = None
  /\ Len(attempts) = 3
  /\ response.kind = "response"
  /\ response.status = 403

\* the three configurations in the order the claim gives them
C2_Expected ==
  << [tls |-> "strict", timeout |-> 15, downgrade |-> FALSE],
     [tls |-> "relaxed", timeout |-> 20, downgrade |-> FALSE],
     [tls |-> "none", timeout |-> 15, downgrade |-> TRUE] >>

\* the k-th attempt is the k-th configuration of the claim
C2_InOrder ==
  \A k \in 1..Len(attempts) :
     /\ k <= 3
     /\ attempts[k].cfg = k
     /\ attempts[k].tls = C2_Expected[k].tls
     /\ attempts[k].timeout = C2_Expected[k].timeout
     /\ attempts[k].url = IF C2_Expected[k].downgrade /\ input[1] = "https"
                          THEN <<"http">> \o Tail(input) ELSE input

\* the response is one the claim calls adequate
C3_Adequate(r) ==
  /\ r.kind = "response"
  /\ r.status \in {200, 201, 202}
  /\ r.page.size > 500
  /\ \E tag \in HtmlTags : Contains(Lower(r.page.markup), tag)

\* one attempt is made: it is the next configuration, the one before it (if
\* any) failed, and an adequate response ends the loop with its HTML
C2_Step ==
  attempts' # attempts =>
     /\ attempts' = Append(attempts, attempts'[Len(attempts')])
     /\ html = None
     /\ (attempts # <<>> => ~C3_Adequate(response))
     /\ (C3_Adequate(response') => html' = response'.page /\ pc' = "fetched")

\* C2: the configurations are attempted strictly in list order (strict
\* TLS/15s, relaxed TLS/20s, no TLS with https->http downgrade/15s),
\* configuration k+1 only after configuration k failed, and once one yields
\* an adequate response fetch returns its HTML and nothing after it is tried
C2_SequentialFirstSuccess ==
  /\ [](C2_InOrder /\ (html # None => pc # "fetch"))
  /\ [][C2_Step /\ (html # None => attempts' = attempts)]_vars

\* the relaxed configuration succeeded after the strict one failed, for an
\* https URL
C2_Witness ==
  /\ pc = "fetched"
  /\ html # None
  /\ Len(attempts) = 2
  /\ input = UrlHttps

\* C3: fetch_content returns HTML only if the returning attempt's response
\* had a status in {200, 201, 202}, a body longer than 500 characters and a
\* body containing, whatever the case, one of '<html', '<body', '<article',
\* '<div'; a response failing one criterion is never returned and the next
\* configuration is tried
C3_OnlyAdequateReturned ==
  /\ []((pc = "fetched" /\ html # None) => (C3_Adequate(response) /\ html = response.page))
  /\ [][(attempts' # attempts /\ ~C3_Adequate(response')) =>
          (html' = None /\ (Len(attempts') < 3 => pc' = "fetch"))]_vars

\* a page starting with <HTML in capitals was returned
C3_Witness ==
  /\ pc = "fetched"
  /\ html # None
  /\ html.markup = M_HTML
  /\ response.status = 202

\* the steps of the coordinator in the order the design gives them, and the
\* hand-over to the repository after them
C4_Steps == <<"validate", "fetch", "extract", "classify", "assemble", "save">>

\* C4: in every URL invocation the steps occur in the order validate ->
\* fetch -> extract -> classify -> assemble, the invocation stops at the
\* first failure, the extractor is never run when fetch failed, the models
\* are never called when fetch failed or the body is under the content
\* threshold, and a record is assembled only after classification succeeded
C4_SinglePass ==
  entry \in UrlEntries =>
     /\ Len(trace) <= Len(C4_Steps)
     /\ \A k \in 1..Len(trace) : trace[k] = C4_Steps[k]
     /\ (Has("extract") => html # None)
     /\ (model_calls > 0 => (html # None /\ TLen(Strip(body)) >= 50))
     /\ model_calls <= 1
     /\ (Has("assemble") => (model_calls = 1 /\ sentiment # None))
     /\ (result # None => Has("assemble"))
     /\ (outcome \notin {"pending", "record"} => pc = "done")

\* a URL the design calls invalid: no scheme, or no host
C5_Invalid(u) == Scheme(u) = "" \/ Host(u) = <<>>

\* C5: for every URL whose scheme or host is empty the invocation ends in a
\* ValidationError and fetch_content makes no attempt, whichever entry the
\* URL came in by
C5_InvalidUrlFailsFast ==
  (entry \in UrlEntries /\ C5_Invalid(input)) =>
     /\ attempts = <<>>
     /\ (pc = "done" => outcome = "ValidationError")

\* the content check has been passed or failed
C6_Checked == entry \in UrlEntries /\ Has("extract") /\ pc # "gate"

\* C6 as claimed: a body of fewer than 50 characters yields ContentError, a
\* body of 50 characters or more goes on to the classification step
C6_ContentThreshold ==
  C6_Checked =>
     IF TLen(body) < 50
     THEN outcome = "ContentError" /\ model_calls = 0
     ELSE outcome # "ContentError" /\ (pc = "classify" \/ Has("classify"))

\* C6 as amended: the threshold is on the body without its leading and
\* trailing whitespace: fewer than 50 characters after trimming yields
\* ContentError without a model call, 50 or more goes on to classification
C6_TrimmedContentThreshold ==
  C6_Checked =>
     IF TLen(Strip(body)) < 50
     THEN outcome = "ContentError" /\ model_calls = 0 /\ pc = "done"
     ELSE outcome # "ContentError" /\ (pc = "classify" \/ Has("classify"))

\* a body of exactly 50 characters after trimming, with a space in front of
\* them, went on to the classification step
C6_Witness ==
  /\ entry \in UrlEntries
  /\ pc = "classify"
  /\ TLen(Strip(body)) = 50
  /\ TLen(body) = 51

\* the records the program has produced and holds or has handed out
C7_Records ==
  (IF outcome = "record" THEN {result} ELSE {})
    \cup {recent[k] : k \in 1..Len(recent)}
    \cup {in_memory_storage[k] : k \in 1..Len(in_memory_storage)}
    \cup {in_memory_history[k] : k \in 1..Len(in_memory_history)}

\* C7: every record a producer creates or re-creates carries a breakdown
\* over positive, neutral and negative whose values sum to 1.0 within 0.01
C7_BreakdownSumsToOne ==
  \A r \in C7_Records :
     LET b == Get(r, "breakdown", <<>>)
     IN  /\ DOMAIN b = {"positive", "neutral", "negative"}
         /\ Abs(BreakdownSum(b) - 10 * ScoreUnit) <= BreakdownTol

\* C8: for positive, negative and neutral alike the bucket of the sentiment
\* holds exactly the raw score and the two other buckets hold 60% and 40% of
\* the residual 1 - score
C8_DominantGetsScore ==
  (sentiment # None /\ Impl(entry) = "service") =>
     LET b == sentiment.breakdown
         rest == ScoreUnit - sentiment.score
     IN  /\ sentiment.sentiment = S_positive =>
              (b.positive = 10 * sentiment.score /\ b.neutral = 6 * rest /\ b.negative = 4 * rest)
         /\ sentiment.sentiment = S_negative =>
              (b.negative = 10 * sentiment.score /\ b.neutral = 6 * rest /\ b.positive = 4 * rest)
         /\ sentiment.sentiment = S_neutral =>
              (b.neutral = 10 * sentiment.score /\ {b.positive, b.negative} = {6 * rest, 4 * rest})

\* C9 as claimed: POSITIVE and LABEL_1 give positive, NEGATIVE and LABEL_0
\* give negative, every other label gives neutral
C9_LabelMapping ==
  (sentiment # None /\ Impl(entry) = "service") =>
     sentiment.sentiment =
        IF sentiment.label \in {L_POSITIVE, L_LABEL_1} THEN S_positive
        ELSE IF sentiment.label \in {L_NEGATIVE, L_LABEL_0} THEN S_negative
             ELSE S_neutral

\* C9 as amended: the label is compared in upper case: a label that reads
\* POSITIVE or LABEL_1 whatever its case gives positive, one that reads
\* NEGATIVE or LABEL_0 whatever its case gives negative, every other label
\* (also 'unknown', which stands for a missing label) gives neutral; so the
\* sentiment is one of positive, negative, neutral
C9_LabelMappingAnyCase ==
  (sentiment # None /\ Impl(entry) = "service") =>
     /\ sentiment.sentiment \in {S_positive, S_negative, S_neutral}
     /\ sentiment.sentiment =
          IF Upper(sentiment.label) \in {L_POSITIVE, L_LABEL_1} THEN S_positive
          ELSE IF Upper(sentiment.label) \in {L_NEGATIVE, L_LABEL_0} THEN S_negative
               ELSE S_neutral

\* the classifier answered 'Positive' and the sentiment is positive
C9_Witness ==
  /\ sentiment # None
  /\ Impl(entry) = "service"
  /\ sentiment.label = L_Positive
  /\ sentiment.sentiment = S_positive

\* C10: a text of at least 10 characters after trimming for which the
\* classifier returns POSITIVE with score s ends in success, with a record
\* whose sentiment is positive and whose breakdown is s, 0.6*(1-s), 0.4*(1-s)
C10_TextPipelineSucceeds ==
  (/\ entry \in TextEntries
   /\ pc = "done"
   /\ TLen(Strip(input)) >= 10
   /\ sentiment # None
   /\ sentiment.label = L_POSITIVE) =>
     /\ outcome = "record"
     /\ result.sentiment = S_positive
     /\ result.breakdown = [positive |-> 10 * sentiment.score,
                            neutral |-> 6 * (ScoreUnit - sentiment.score),
                            negative |-> 4 * (ScoreUnit - sentiment.score)]

\* the summarizer or the classifier raised, or came back with nothing
C11_ModelFailed ==
  /\ model_result # None
  /\ \/ model_result.kind = "raise"
     \/ model_result.summary = <<>>
     \/ model_result.sentiment = <<>>

\* C11: when the classifier or the summarizer raises or returns an empty
\* result, the invocation ends in a ClassificationError and no record is
\* produced, returned or saved, on every entry that calls the models
C11_ModelFailureIsClassificationError ==
  C11_ModelFailed =>
     /\ pc = "done"
     /\ outcome = "ClassificationError"
     /\ sentiment = None
     /\ result = None
     /\ dbDocs = <<>> /\ in_memory_storage = <<>> /\ in_memory_history = <<>>

\* C12: the summary of the record a successful run produces is the text the
\* summarizer returned for the analysis window of that run
C12_SummaryIsSummarizerText ==
  (pc = "done" /\ outcome = "record" /\ model_result.summary # <<>>) =>
     result.summary = model_result.summary[1]

\* C13: in every run that reaches classification the text handed to the
\* models has at most 1000 characters; on the URL path it is the first 1000
\* characters of the body or, when that slice trims to fewer than 50
\* characters, the first 1000 characters of heading + '. ' + body
C13_WindowAtMost1000 ==
  model_calls > 0 =>
     /\ TLen(content_for_analysis) <= 1000
     /\ entry \in UrlEntries =>
          content_for_analysis =
             IF TLen(Strip(Take(body, 1000))) < 50
             THEN Take(Cat(Cat(heading, DotSpace), body), 1000)
             ELSE Take(body, 1000)

\* the endpoints that persist what they produce: those of the controller,
\* which owns the repository, and POST /analyze/ of main.py
C14_Entries == {"mvc_url", "mvc_text", "main_url"}

\* how often the persistence step was taken
C14_Saves == Cardinality({k \in 1..Len(trace) : trace[k] = "save"})

C15_PersistenceFailureSwallowed ==
  (Has("save") /\ pc = "done") =>
     /\ outcome = "record"
     /\ http_status = 200
     /\ result # None

\* the five outcomes of the design
C16_Outcomes ==
  {"record", "ValidationError", "FetchError", "ContentError", "ClassificationError"}

\* C16: every invocation, URL or text, whatever the network and the models
\* do, eventually terminates, and in exactly one of the five outcomes record,
\* ValidationError, FetchError, ContentError, ClassificationError; no
\* exception escapes AnalysisService.analyze_url or analyze_text
C16_TerminatesInOneOfFive ==
  /\ [](pc = "done" => outcome \in C16_Outcomes)
  /\ [](pc # "done" => outcome = "pending")
  /\ [][outcome # "pending" => outcome' = outcome]_vars
  /\ (pc \notin {"idle", "done"}) ~> (pc = "done")

\* C17: when the fetch of a URL fails under all three configurations the
\* run ends in a FetchError whose message contains the requested URL, and
\* the HTTP caller gets that message with status 400
C17_FetchErrorMentionsUrl ==
  (/\ entry \in UrlEntries
   /\ pc = "done"
   /\ Len(attempts) = 3
   /\ html = None) =>
     /\ outcome = "FetchError"
     /\ Contains(detail, input)
     /\ detail[1] = "Unable to access the website at "
     /\ entry \in {"mvc_url", "main_url"} => http_status = 400

\* a request through the controller whose three attempts all failed
C17_Witness ==
  /\ entry = "mvc_url"
  /\ input = UrlHttps
  /\ pc = "done"
  /\ Len(attempts) = 3
  /\ attempts[3].url = ReplaceHttps(UrlHttps)
  /\ html = None
  /\ outcome = "FetchError"
  /\ http_status = 400
  /\ Contains(detail, UrlHttps)

\* C18: after any sequence of saves, sample-data calls and clears, in any
\* interleaving of the requests in flight, neither in-memory store holds
\* more than 50 entries
C18_AtMostCapacity ==
  /\ Len(in_memory_storage) <= 50
  /\ Len(in_memory_history) <= 50

\* a record was saved into the full store and the oldest one has left it
C18_Witness ==
  /\ saves > 0
  /\ Len(in_memory_storage) = 50
  /\ in_memory_storage[1].url = UrlN(51)
  /\ in_memory_storage[50].url = UrlN(2)

\* a finished request was saved into the in-memory store in this step
C19_SavedToMemory(old, new) ==
  /\ saves' = saves + 1
  /\ new # old

\* what C19 claims of one save: the new record in front of the records held
\* before, which keep their order, less the last of them when the store was
\* at capacity
C19_PushEvictOldest(old, new) ==
  /\ new # <<>>
  /\ Tail(new) = IF Len(old) = 50 THEN SubSeq(old, 1, 49) ELSE old

\* C19 as claimed: every save into an in-memory store puts the new record
\* at index 0, keeps the relative order of all records stored before and,
\* at capacity, removes only the oldest entry
C19_FrontInsertKeepsOrder ==
  [][/\ C19_SavedToMemory(in_memory_storage, in_memory_storage')
          => C19_PushEvictOldest(in_memory_storage, in_memory_storage')
     /\ C19_SavedToMemory(in_memory_history, in_memory_history')
          => C19_PushEvictOldest(in_memory_history, in_memory_history')]_vars

\* the records of old whose URL is not that of the record saved
C19_Others(old, new) == SelectSeq(old, LAMBDA a : a.url # new[1].url)

\* C19 as amended: a save into the repository's in-memory store first
\* removes the stored record of the same URL, then puts the new record at
\* index 0, keeps the relative order of the remaining records and removes
\* the oldest entry only when more than 50 are then held; a save into the
\* history of main.py does the same without removing anything first
C19_FrontInsertAfterReplace ==
  [][/\ C19_SavedToMemory(in_memory_storage, in_memory_storage') =>
          /\ in_memory_storage' # <<>>
          /\ LET others == C19_Others(in_memory_storage, in_memory_storage')
             IN  Tail(in_memory_storage') =
                    IF Len(others) = 50 THEN SubSeq(others, 1, 49) ELSE others
     /\ C19_SavedToMemory(in_memory_history, in_memory_history')
          => C19_PushEvictOldest(in_memory_history, in_memory_history')]_vars

\* the article stored first was saved again into the full store: it is in
\* front, nothing was evicted and the others kept their order
C19_Witness ==
  /\ app = "main_mvc"
  /\ saves = 1
  /\ Len(in_memory_storage) = 50
  /\ in_memory_storage[1].url = UrlN(1)
  /\ \A i \in 2..50 : in_memory_storage[i].url = UrlN(52 - i)

\* the record is held by the store, unchanged
C20_Held(r, store) == \E j \in 1..Len(store) : store[j] = r

\* every document of the collection is still there, unchanged and in place
C20_DocsKept == /\ Len(dbDocs') >= Len(dbDocs)
                /\ SubSeq(dbDocs', 1, Len(dbDocs)) = dbDocs

\* C20 as claimed: a persisted record is never modified and leaves the
\* store only through clear_all, so every step other than a clear leaves
\* every stored record in its store as it was
C20_OnlyClearRemoves ==
  [][ClearHistory \/
     /\ C20_DocsKept
     /\ \A i \in 1..Len(in_memory_storage) :
          C20_Held(in_memory_storage[i], in_memory_storage')
     /\ \A i \in 1..Len(in_memory_history) :
          C20_Held(in_memory_history[i], in_memory_history')]_vars

\* the URLs of the records of a list
C20_Urls(store) == {store[j].url : j \in 1..Len(store)}

\* new is some records put in front (one by a save, three by the sample
\* data) of the records of old, which are unchanged and in their order,
\* less those of a URL put in front when replace is set, and less the last
\* of them only when new is full
C20_KeptButOldest(old, new, replace) ==
  \E j \in 0..Len(SampleAnalyses) :
    /\ j <= Len(new)
    /\ LET front == SubSeq(new, 1, j)
           rest == SubSeq(new, j + 1, Len(new))
           kept == IF replace
                   THEN SelectSeq(old, LAMBDA a : a.url \notin C20_Urls(front))
                   ELSE old
       IN  /\ Len(rest) <= Len(kept)
           /\ rest = SubSeq(kept, 1, Len(rest))
           /\ Len(rest) < Len(kept) => Len(new) = 50

\* C20 as amended: a persisted record is never modified; a document of the
\* database collection leaves it only through clear_all; an entry of an
\* in-memory store leaves it only through clear_all, through eviction as
\* the oldest entry of a store filled beyond its capacity of 50, or, in the
\* repository's store, through a save for the same URL, which replaces it
C20_RemovedOnlyByClearEvictReplace ==
  [][ClearHistory \/
     /\ C20_DocsKept
     /\ C20_KeptButOldest(in_memory_storage, in_memory_storage', TRUE)
     /\ C20_KeptButOldest(in_memory_history, in_memory_history', FALSE)]_vars

\* a result was stored into the full history of main.py: the oldest entry
\* left, every other entry is held as it was, one place further back
C20_Witness ==
  /\ app = "main"
  /\ saves = 1
  /\ Len(in_memory_history) = 50
  /\ in_memory_history[1] = ResultOf(UrlN(51))
  /\ \A i \in 2..50 : in_memory_history[i] = HistoryFilled(50)[i - 1]

\* the extractor has been applied to the page
C21_Extracted == Has("extract") /\ pc = "gate"

\* C21: for every HTML input the heading returned by extract has at most 200
\* characters
C21_HeadingAtMost200 == C21_Extracted => TLen(heading) <= 200

RECURSIVE C22_Drop(_, _)
\* text[n:]
C22_Drop(t, n) ==
  IF t = <<>> \/ n <= 0 THEN t
  ELSE IF Head(t)[2] <= n THEN C22_Drop(Tail(t), n - Head(t)[2])
       ELSE <<(<<Head(t)[1], Head(t)[2] - n>>)>> \o Tail(t)

\* C22: when the selected heading text is longer than 200 characters the
\* heading returned is its first 200 characters followed by '...' and nothing
\* else; a selected heading of 200 characters or fewer is returned unchanged
C22_TruncatedExactly ==
  C21_Extracted =>
    LET sel == SelectHeading(html.doc)
    IN  IF TLen(sel) > 200
        THEN /\ TLen(heading) = 203
             /\ Take(heading, 200) = Take(sel, 200)
             /\ C22_Drop(heading, 200) = <<(<<"p", 3>>)>>
        ELSE heading = sel

\* a page whose h1 text has 201 characters was extracted
C22_Witness ==
  /\ C21_Extracted
  /\ TLen(Strip(html.doc.h1)) = 201
  /\ TLen(heading) = 203

\* the text the priority of C23 names: the first h1 when it has text, else
\* the title when it has text, else the first fallback match that has text,
\* else 'No Heading'
C23_Expected(doc) ==
  LET withText == {k \in 1..Len(doc.fallback) : Strip(doc.fallback[k]) # <<>>}
      first == CHOOSE k \in withText : \A j \in withText : k <= j
  IN  IF Strip(doc.h1) # <<>> THEN Strip(doc.h1)
      ELSE IF Strip(doc.title) # <<>> THEN Strip(doc.title)
           ELSE IF withText # {} THEN Strip(doc.fallback[first])
                ELSE <<(<<"w", 2>>), (<<"s", 1>>), (<<"w", 7>>)>>

\* C23: the heading is chosen by strict priority, first non-empty match
\* winning: h1, else title, else the fallback selectors in their order, else
\* the sentinel 'No Heading' (the heading returned is that text, cut at 200
\* characters when it is longer)
C23_HeadingPriority ==
  C21_Extracted =>
    LET want == C23_Expected(html.doc)
    IN  IF TLen(want) <= 200 THEN heading = want
        ELSE Take(heading, 200) = Take(want, 200)

\* a page with a blank h1, no title, a blank h2 and an h3 with text was
\* extracted: the h3 gave the heading
C23_Witness ==
  /\ C21_Extracted
  /\ html.doc.h1 = Space
  /\ html.doc.title = <<>>
  /\ html.doc.fallback = <<Space, W(4)>>
  /\ heading = W(4)

\* the article containers of the page in the order they are scanned
C24_Scanned(doc) == Flatten(doc.containers)

\* the first container that holds at least 2 paragraph elements
C24_First(doc) ==
  LET els == C24_Scanned(doc)
      big == {k \in 1..Len(els) : Len(els[k]) >= 2}
  IN  els[CHOOSE k \in big : \A j \in big : k <= j]

C24_SomeContainer(doc) == \E k \in 1..Len(C24_Scanned(doc)) : Len(C24_Scanned(doc)[k]) >= 2

\* the paragraph texts of a container, joined and cleaned
C24_TextOf(paras) ==
  CleanBody(JoinSpace(SelectSeq([k \in 1..Len(paras) |-> Strip(paras[k])],
                                LAMBDA t : t # <<>>)))

\* C24 as claimed: when some article container holds at least 2 paragraph
\* elements, the body consists only of the paragraph texts of the first such
\* container and no fallback is used
C24_OnlyFirstContainer ==
  (C21_Extracted /\ C24_SomeContainer(html.doc))
    => body = C24_TextOf(C24_First(html.doc))

\* C24 as amended: when the first article container that holds at least 2
\* paragraph elements has a paragraph with text, the body consists only of
\* the paragraph texts of that container and no fallback is used
C24_OnlyFirstContainerWithText ==
  (/\ C21_Extracted
   /\ C24_SomeContainer(html.doc)
   /\ \E k \in 1..Len(C24_First(html.doc)) : Strip(C24_First(html.doc)[k]) # <<>>)
    => body = C24_TextOf(C24_First(html.doc))

\* a page with an article of one paragraph, an article of two, a paragraph
\* outside them and a div of text was extracted: the body is the two
\* paragraphs of the second article
C24_Witness ==
  /\ C21_Extracted
  /\ html.doc.containers = << << <<W(30)>>, <<W(8), Gapped>> >> >>
  /\ html.doc.loose # <<>>
  /\ html.doc.divs # <<>>
  /\ body = <<(<<"w", 8>>), (<<"s", 1>>), (<<"w", 4>>), (<<"s", 2>>), (<<"w", 4>>)>>

\* C25: the body returned by extract holds no run of two or more whitespace
\* characters
C25_NoWhitespaceRuns ==
  C21_Extracted => \A k \in 1..Len(body) : body[k][1] = "s" => body[k][2] = 1

\* C26: while one invocation is executing the classification/summarization
\* call, an invocation that is in its fetch step can still make progress
C26_FetchNotBlockedByModelCall ==
  \A i \in Invocations : \A j \in Invocations :
    (tasks[i].at = "model" /\ tasks[j].at = "fetch") => ENABLED FetchResume(j)

\* C27: after any sequence of saves that fall back to the in-memory store,
\* the ids of the entries it holds are pairwise distinct
C27_MemoryIdsDistinct ==
  \A i \in 1..Len(in_memory_storage) : \A j \in 1..Len(in_memory_storage) :
    i # j => in_memory_storage[i].id # in_memory_storage[j].id

\* C28: the repository's in-memory store holds at most one record per URL
C28_OneRecordPerUrl ==
  \A i \in 1..Len(in_memory_storage) : \A j \in 1..Len(in_memory_storage) :
    i # j => in_memory_storage[i].url # in_memory_storage[j].url

\* the newest stored article was saved again into the full store: it is
\* held once, in front, and the store still holds 50 records
C28_Witness ==
  /\ app = "main_mvc"
  /\ saves = 1
  /\ Len(in_memory_storage) = 50
  /\ in_memory_storage[1].url = UrlN(50)
  /\ \A i \in 2..50 : in_memory_storage[i].url # UrlN(50)

\* C29: whenever save_analysis(r) has returned normally, a get_recent_analyses
\* that follows at once (the database answering the read) returns a list
\* whose first entry is r
C29_ReadYourWrite ==
  (/\ pc = "done"
   /\ outcome = "record"
   /\ ViaController(entry)
   /\ Has("save")
   /\ sampleCalls = 0)
    => \A limit \in {1, max_memory_items} :
         LET got == get_recent_analyses(limit, collection, "ok", dbDocs, in_memory_storage)
         IN  got # <<>> /\ got[1].url = result.url

====
